---------------------------- MODULE Spec2Model ----------------------------
(***************************************************************************)
(* Route Evaluation Engine of the walking-navigation backend.              *)
(*                                                                         *)
(* Two variants of the engine live in the repository:                      *)
(*   "google": src/backend/google-map-api/googlemap-test.py                *)
(*   "ors"   : src/Backend/google-map-api/openstreetmap copy.py            *)
(*                                                                         *)
(* Representation.                                                         *)
(*  - A Python string is a sequence: a polyline is a sequence of character *)
(*    codes (ord), an instruction text a sequence of one-character strings.*)
(*  - Python lists are sequences; Python index i is index i+1 here.        *)
(*  - A point is <<lat, lng>> in units of 1e-5 degree (the decoder's       *)
(*    lat / 1e5 kept as a fixed-point number).                             *)
(*  - A float is an exact fraction [n, d] in lowest terms, d > 0; rounding *)
(*    of IEEE doubles is not modelled.                                     *)
(*  - Elevations are integers in units of 0.0111111 m and the modelled     *)
(*    geometries run along one meridian, so that a segment's slope in      *)
(*    percent, (delta_elevation / horizontal_dist) * 100 with              *)
(*    horizontal_dist = |dlat| * 111_111 m per degree, is exactly          *)
(*    delta_elevation / |dlat| in these units.                             *)
(*  - A raised, uncaught Python exception is pc = "raised".                *)
(*  - A call that never returns is pc = "blocked".                         *)
(***************************************************************************)
EXTENDS Integers, Sequences, FiniteSets, TLC

VARIABLES
    variant,        \* which evaluate_routes runs: "google" or "ors"
    routes_data,    \* the candidate list (google: routes_data, ors: ors_data["features"])
    idx,            \* position of the loop of evaluate_routes (1-based)
    best_route,     \* index of the best route so far, 0 for None
    best_score,     \* the best score so far, Inf for float('inf')
    breakdown,      \* per candidate: what the loop body computed (the printed line)
    elev_calls,     \* the requests sent to the Elevation Service and their answers
    result,         \* what evaluate_routes returned
    chosen_index,   \* google_map_path: routes.index(best_route) + 1, 0 before it
    pc,             \* position of the running function
    steps,          \* argument of a flatten_steps call
    flattened,      \* value returned by flatten_steps
    polyline_str,   \* argument of a decode_polyline call
    decoded,        \* outcome of decode_polyline
    slope_arg,      \* argument of a compute_route_slope call (google: route_polyline,
                    \* ors: coordinates)
    slope_out       \* outcome of compute_route_slope

vars == <<variant, routes_data, idx, best_route, best_score, breakdown,
          elev_calls, result, chosen_index, pc, steps, flattened, polyline_str,
          decoded, slope_arg, slope_out>>

evalVars == <<variant, routes_data, idx, best_route, best_score, breakdown,
              elev_calls, result, chosen_index>>

(***************************************************************************)
(* Bounds of the model.                                                    *)
(***************************************************************************)
MaxRoutes == 3
MaxPolyLen == 4
MaxNodes == 4
MaxPoints == 2

(***************************************************************************)
(* Float arithmetic, as exact fractions.                                   *)
(***************************************************************************)
Abs(x) == IF x < 0 THEN -x ELSE x

RECURSIVE Gcd(_, _)
Gcd(a, b) == IF b = 0 THEN a ELSE Gcd(b, a % b)

Frac(n, d) ==
    LET g == Gcd(Abs(n), d)
    IN  [n |-> n \div g, d |-> d \div g]

Zero == Frac(0, 1)
FInt(k) == Frac(k, 1)
FAdd(a, b) == Frac(a.n * b.d + b.n * a.d, a.d * b.d)
FMul(a, b) == Frac(a.n * b.n, a.d * b.d)
FAbs(a) == [n |-> Abs(a.n), d |-> a.d]
FLess(a, b) == a.n * b.d < b.n * a.d
FLeq(a, b) == a.n * b.d <= b.n * a.d

\* float('inf') and the finite scores
Inf == [inf |-> TRUE, v |-> Zero]
Fin(a) == [inf |-> FALSE, v |-> a]
\* mutants of the comparison: `score > best_score`, `score <= best_score`
ScoreGreater(score, best) == best.inf \/ FLess(best.v, score)
ScoreLessOrEqual(score, best) == best.inf \/ FLeq(score, best.v)

\* score < best_score
ScoreLess(score, best) == best.inf \/ FLess(score, best.v)

(***************************************************************************)
(* decode_polyline                                                         *)
(***************************************************************************)
\* mutant: a negation in place of the complement
ZigZagNegate(r) == IF r % 2 = 1 THEN -(r \div 2) ELSE r \div 2

\* dlat = ~(result >> 1) if (result & 1) else (result >> 1)
ZigZag(r) == IF r % 2 = 1 THEN -(r \div 2) - 1 ELSE r \div 2

\* mutant: the inner loop stops at the end of the string instead of raising
RECURSIVE ReadChunksBounded(_, _, _, _)
ReadChunksBounded(s, index, shift, res) ==
    IF index > Len(s)
    THEN [err |-> FALSE, index |-> index, result |-> res]
    ELSE LET b == s[index] - 63
             r == res + (b % 32) * 2^shift
         IN  IF b < 32
             THEN [err |-> FALSE, index |-> index + 1, result |-> r]
             ELSE ReadChunksBounded(s, index + 1, shift + 5, r)

\* The inner `while True` loop: reads one coordinate from s, starting at index.
\* polyline_str[index] past the end raises IndexError (err).
\* b & 0x1f is b mod 32 also for a negative b; the chunks fill disjoint bits,
\* so result |= chunk << shift adds chunk * 2^shift.
RECURSIVE ReadChunks(_, _, _, _)
ReadChunks(s, index, shift, res) ==
    IF index > Len(s)
    THEN [err |-> TRUE, index |-> index, result |-> res]
    ELSE LET b == s[index] - 63
             r == res + (b % 32) * 2^shift
         IN  IF b < 32
             THEN [err |-> FALSE, index |-> index + 1, result |-> r]
             ELSE ReadChunks(s, index + 1, shift + 5, r)

IndexError == [err |-> TRUE, points |-> <<>>]

\* The outer loop `while index < len(polyline_str)`.
RECURSIVE DecodeFrom(_, _, _, _, _)
DecodeFrom(s, index, lat, lng, points) ==
    IF index > Len(s)
    THEN [err |-> FALSE, points |-> points]
    ELSE LET a == ReadChunks(s, index, 0, 0)
         IN  IF a.err
             THEN IndexError
             ELSE LET lat2 == lat + ZigZag(a.result)
                      b == ReadChunks(s, a.index, 0, 0)
                  IN  IF b.err
                      THEN IndexError
                      ELSE LET lng2 == lng + ZigZag(b.result)
                           IN  DecodeFrom(s, b.index, lat2, lng2,
                                          Append(points, <<lat2, lng2>>))

decode_polyline(s) == DecodeFrom(s, 1, 0, 0, <<>>)

(***************************************************************************)
(* flatten_steps                                                           *)
(* A step is [html_instructions, steps]; steps = <<>> stands for a step    *)
(* with no 'steps' key, a non-list or an empty list (a leaf).              *)
(***************************************************************************)
\* mutant: sub-steps are spliced in without flattening them in turn
RECURSIVE FlattenOneLevel(_)
FlattenOneLevel(ss) ==
    IF ss = <<>>
    THEN <<>>
    ELSE LET step == Head(ss)
         IN  (IF step.steps # <<>> THEN step.steps ELSE <<step>>)
             \o FlattenOneLevel(Tail(ss))

RECURSIVE flatten_steps(_)
flatten_steps(ss) ==
    IF ss = <<>>
    THEN <<>>
    ELSE LET step == Head(ss)
         IN  (IF step.steps # <<>>
              THEN flatten_steps(step.steps)
              ELSE <<step>>) \o flatten_steps(Tail(ss))

\* openstreetmap copy.py: ORS steps are returned as they are
flatten_steps_ors(ss) == ss

(***************************************************************************)
(* Turn counting: 'turn' in s.get('html_instructions', '').lower()         *)
(***************************************************************************)
Lower(c) ==
    CASE c = "T" -> "t"
      [] c = "U" -> "u"
      [] c = "R" -> "r"
      [] c = "N" -> "n"
      [] c = "G" -> "g"
      [] c = "O" -> "o"
      [] OTHER -> c

\* mutant: the text is searched as it is, without .lower()
LowerStrIdentity(s) == s

LowerStr(s) == [i \in 1..Len(s) |-> Lower(s[i])]

turn == <<"t", "u", "r", "n">>

\* sub in s
Contains(s, sub) ==
    \E i \in 1..(Len(s) - Len(sub) + 1) : SubSeq(s, i, i + Len(sub) - 1) = sub

\* the number of texts (one per step) that hold "turn" in any letter case
TurnCount(texts) ==
    Cardinality({i \in 1..Len(texts) : Contains(LowerStr(texts[i]), turn)})

(***************************************************************************)
(* Slope                                                                   *)
(***************************************************************************)
step_size == 5

\* mutant: no sub-sampling, every point is sent
SampleEveryPoint(points) == points

\* points[::step_size]
Sample(points) ==
    [k \in 1..((Len(points) + step_size - 1) \div step_size) |->
        points[(k - 1) * step_size + 1]]

\* sqrt(dist_lat**2 + dist_lng**2) for two points of one meridian (dist_lng = 0),
\* in units of 1.11111 m
HorizontalDist(p1, p2) ==
    CASE p1[2] = p2[2] -> Abs(p2[1] - p1[1])

\* mutant: the slope of a segment is added with its sign
SegmentSlopeSigned(sampled_points, elevations, i) ==
    LET delta_elevation == elevations[i + 1] - elevations[i]
        horizontal_dist == HorizontalDist(sampled_points[i], sampled_points[i + 1])
    IN  IF horizontal_dist > 0
        THEN Frac(delta_elevation, horizontal_dist)
        ELSE Zero

\* abs(slope) of the segment i of the loop `for i in range(len(elevations) - 1)`
SegmentSlope(sampled_points, elevations, i) ==
    LET delta_elevation == elevations[i + 1] - elevations[i]
        horizontal_dist == HorizontalDist(sampled_points[i], sampled_points[i + 1])
    IN  IF horizontal_dist > 0
        THEN FAbs(Frac(delta_elevation, horizontal_dist))
        ELSE Zero

RECURSIVE TotalSlope(_, _, _)
TotalSlope(sampled_points, elevations, k) ==
    IF k = 0
    THEN Zero
    ELSE FAdd(TotalSlope(sampled_points, elevations, k - 1),
              SegmentSlope(sampled_points, elevations, k))

Max(a, b) == IF a > b THEN a ELSE b

\* mutant: `for i in range(len(elevations))`, elevations[i + 1] runs past the end
AvgSlopeOffByOne(sampled_points, elevations) ==
    IF Len(elevations) >= 1
    THEN [raised |-> TRUE, value |-> Zero]
    ELSE [raised |-> FALSE, value |-> Zero]

\* The slope loop and the final average; sampled_points[i+1] past the end of
\* sampled_points raises IndexError outside every try block.
AvgSlope(sampled_points, elevations) ==
    LET segment_count == Max(0, Len(elevations) - 1)
    IN  IF segment_count > Len(sampled_points) - 1
        THEN [raised |-> TRUE, value |-> Zero]
        ELSE [raised |-> FALSE,
              value |-> FMul(TotalSlope(sampled_points, elevations, segment_count),
                             Frac(1, Max(1, segment_count)))]

\* An answer of the Elevation Service.
\*   "network": requests.get / requests.post raises
\*   "unparseable": response.json() raises
\*   "status": a parsed answer that reports no success and carries no data
\*   "ok": a parsed success carrying elevations
\*   "never": no answer ever comes; requests.get / requests.post is called
\*            without a timeout and does not return
NoAnswer == [kind |-> "none", elevations |-> <<>>]
Failures == {"network", "unparseable", "status"}
Silent == [kind |-> "never", elevations |-> <<>>]

\* google: what compute_route_slope sends, <<>> when it sends nothing
SlopeRequest(route_polyline) ==
    LET dec == decode_polyline(route_polyline)
    IN  IF dec.err \/ Len(dec.points) < 2 THEN <<>> ELSE Sample(dec.points)

\* mutant: no try block around the request, a failure of the service propagates
ComputeRouteSlopeNoTry(route_polyline, answer) ==
    LET dec == decode_polyline(route_polyline)
    IN  IF dec.err
        THEN [raised |-> TRUE, value |-> Zero]
        ELSE IF Len(dec.points) < 2
        THEN [raised |-> FALSE, value |-> Zero]
        ELSE IF answer.kind # "ok"
        THEN [raised |-> TRUE, value |-> Zero]
        ELSE AvgSlope(Sample(dec.points), answer.elevations)

\* google compute_route_slope, given the service's answer
compute_route_slope(route_polyline, answer) ==
    LET dec == decode_polyline(route_polyline)
    IN  IF dec.err
        THEN [raised |-> TRUE, value |-> Zero]
        ELSE IF Len(dec.points) < 2
        THEN [raised |-> FALSE, value |-> Zero]
        ELSE IF answer.kind # "ok"
        THEN [raised |-> FALSE, value |-> Zero]
        ELSE AvgSlope(Sample(dec.points), answer.elevations)

\* ors get_elevations_along_line
get_elevations_along_line(points, answer) ==
    IF answer.kind # "ok" \/ answer.elevations = <<>>
    THEN [i \in 1..Len(points) |-> 0]
    ELSE answer.elevations

\* ors compute_route_slope
compute_route_slope_ors(coordinates, answer) ==
    LET sampled_points == Sample(coordinates)
        elevations == get_elevations_along_line(sampled_points, answer)
    IN  IF Len(elevations) < 2
        THEN [raised |-> FALSE, value |-> Zero]
        ELSE AvgSlope(sampled_points, elevations)

(***************************************************************************)
(* Scoring                                                                 *)
(***************************************************************************)
time_weight == Frac(1, 1)
slope_weight == Frac(2, 1)
step_weight == Frac(1, 2)
turn_weight == Frac(3, 4)
MissingDuration == 999999

\* google: the four-term score
Score(travel_time, slope_factor, step_count, turn_count) ==
    FAdd(FAdd(FAdd(FMul(time_weight, FInt(travel_time)),
                   FMul(slope_weight, slope_factor)),
              FMul(step_weight, FInt(step_count))),
         FMul(turn_weight, FInt(turn_count)))

\* ors: the score has no turn term
ScoreOrs(travel_time, slope_factor, step_count) ==
    FAdd(FAdd(FMul(time_weight, FInt(travel_time)),
              FMul(slope_weight, slope_factor)),
         FMul(step_weight, FInt(step_count)))

(***************************************************************************)
(* Candidate lists                                                         *)
(***************************************************************************)
TurnLeft == <<"T", "u", "r", "n">>
UTurn == <<"U", "T", "U", "R", "N">>
GoOn == <<"G", "o">>

Leaf(h) == [html_instructions |-> h, steps |-> <<>>]
Node(h, kids) == [html_instructions |-> h, steps |-> kids]

\* Google nests sub-steps under a step that carries an instruction of its own;
\* a step without 'html_instructions' has the text ''
StepsNested ==
    <<Node(TurnLeft, <<Leaf(TurnLeft), Leaf(GoOn)>>), Leaf(UTurn), Leaf(<<>>)>>
StepsOne == <<Leaf(GoOn)>>

RECURSIVE Rep(_, _)
Rep(s, k) == IF k = 0 THEN <<>> ELSE s \o Rep(s, k - 1)

\* polylines: "" ; "_" (ends mid-chunk) ; one point ; 6 and 11 points going
\* north by 1e-5 degree each ("??" is (0,0), "A?" is the delta (+1, 0))
PolyEmpty == <<>>
PolyBad == <<95>>
PolyOne == <<63, 63>>
PolySix == <<63, 63>> \o Rep(<<65, 63>>, 5)
PolyEleven == <<63, 63>> \o Rep(<<65, 63>>, 10)

Duration(v) == [present |-> TRUE, value |-> v]
NoDuration == [present |-> FALSE, value |-> 0]

Leg(d, ss) == [duration |-> d, steps |-> ss]
Route(legs, poly) == [legs |-> legs, overview_polyline |-> poly]

GoogleRoutes ==
    { Route(<<>>, PolySix),
      Route(<<Leg(Duration(500), StepsNested)>>, PolyEmpty),
      Route(<<Leg(Duration(600), StepsOne)>>, PolyEleven),
      Route(<<Leg(Duration(500), <<>>)>>, PolyEmpty),
      Route(<<Leg(NoDuration, StepsOne)>>, PolyEmpty),
      Route(<<Leg(Duration(500), StepsOne)>>, PolyBad),
      Route(<<Leg(Duration(600), StepsOne)>>, PolyOne) }

\* ORS: a feature is [segments, coordinates]; coordinates are [lon, lat] pairs;
\* a segment is [duration, steps]; a step is [instruction]
OrsStep(h) == [instruction |-> h]
OrsSteps == <<OrsStep(TurnLeft), OrsStep(GoOn), OrsStep(<<>>)>>
Line(k) == [i \in 1..k |-> <<0, i - 1>>]
Segment(d, ss) == [duration |-> d, steps |-> ss]
Feature(segments, coords) == [segments |-> segments, coordinates |-> coords]

OrsFeatures ==
    { Feature(<<>>, Line(6)),
      Feature(<<Segment(Duration(500), OrsSteps)>>, <<>>),
      Feature(<<Segment(Duration(600), <<OrsStep(GoOn)>>)>>, Line(11)),
      Feature(<<Segment(Duration(500), <<>>)>>, <<>>),
      Feature(<<Segment(NoDuration, <<OrsStep(GoOn)>>)>>, <<>>),
      Feature(<<Segment(Duration(600), <<OrsStep(GoOn)>>)>>, Line(1)) }

SeqsUpTo(S, k) == UNION {[1..m -> S] : m \in 0..k}

\* What the Elevation Service may answer to a request of n points: a failure,
\* n elevations (flat, or a ramp), a ramp of n - 1 or n + 1 elevations, or
\* nothing at all.
MaxElev == 2
Ramp(m) == [i \in 1..m |-> (i - 1) * MaxElev]
Flat(m) == [i \in 1..m |-> 0]
Answers(n) ==
    {[kind |-> k, elevations |-> <<>>] : k \in Failures}
    \cup {[kind |-> "ok", elevations |-> e] :
            e \in {Flat(n), Ramp(n), Ramp(n - 1), Ramp(n + 1)}}
    \cup {Silent}

NoResult == [kind |-> "pending", idx |-> 0]
NoSlope == [raised |-> FALSE, value |-> Zero]

SlopeIdle ==
    /\ slope_arg = <<>>
    /\ slope_out = NoSlope

Idle ==
    /\ steps = <<>>
    /\ flattened = <<>>
    /\ polyline_str = <<>>
    /\ decoded = [err |-> FALSE, points |-> <<>>]
    /\ SlopeIdle

Init ==
    /\ variant \in {"google", "ors"}
    /\ routes_data \in SeqsUpTo(IF variant = "google" THEN GoogleRoutes ELSE OrsFeatures,
                                MaxRoutes)
    /\ idx = 0
    /\ best_route = 0
    /\ best_score = Inf
    /\ breakdown = <<>>
    /\ elev_calls = <<>>
    /\ result = NoResult
    /\ chosen_index = 0
    /\ pc = "start"
    /\ Idle

(***************************************************************************)
(* evaluate_routes (google)                                                *)
(***************************************************************************)
\* mutant: a route without steps is skipped as well
SkippedAlsoNoSteps(route) ==
    \/ route.legs = <<>>
    \/ route.legs[1].steps = <<>>

\* mutant: a route whose leg has no duration is skipped as well
SkippedAlsoNoDuration(route) ==
    \/ route.legs = <<>>
    \/ ~route.legs[1].duration.present

\* `if not route.get('legs'): continue`
Skipped(route) == route.legs = <<>>

SkippedEntry ==
    [skipped |-> TRUE, travel_time |-> 0, step_count |-> 0, turn_count |-> 0,
     slope_factor |-> Zero, score |-> Zero]

\* The loop body for a route that is not skipped, up to the score.
Evaluate(route, answer) ==
    LET leg == route.legs[1]
        flat == flatten_steps(leg.steps)
        travel_time == IF leg.duration.present THEN leg.duration.value
                       ELSE MissingDuration
        step_count == Len(flat)
        turn_count == TurnCount([i \in 1..Len(flat) |-> flat[i].html_instructions])
        overview_polyline == route.overview_polyline
        slope == IF overview_polyline # <<>>
                 THEN compute_route_slope(overview_polyline, answer)
                 ELSE [raised |-> FALSE, value |-> Zero]
    IN  [raised |-> slope.raised,
         entry |-> [skipped |-> FALSE, travel_time |-> travel_time,
                    step_count |-> step_count, turn_count |-> turn_count,
                    slope_factor |-> slope.value,
                    score |-> Score(travel_time, slope.value, step_count, turn_count)]]

\* mutant: `return route` in place of `return best_route`
AdvanceReturnsCurrent(i, best) ==
    IF i = Len(routes_data)
    THEN /\ pc' = "returned"
         /\ result' = IF i = 0 THEN [kind |-> "None", idx |-> 0]
                      ELSE [kind |-> "route", idx |-> i]
         /\ idx' = i
    ELSE /\ pc' = "loop"
         /\ result' = result
         /\ idx' = i + 1

\* the end of one pass of the loop: next candidate, or `return best_route`
Advance(i, best) ==
    IF i = Len(routes_data)
    THEN /\ pc' = "returned"
         /\ result' = IF best = 0 THEN [kind |-> "None", idx |-> 0]
                      ELSE [kind |-> "route", idx |-> best]
         /\ idx' = i
    ELSE /\ pc' = "loop"
         /\ result' = result
         /\ idx' = i + 1

\* list.index(value): the first position holding an element equal to value
ListIndex(list, value) ==
    CHOOSE i \in 1..Len(list) :
        list[i] = value /\ \A j \in 1..(i - 1) : list[j] # value

\* google_map_path after `best_route = evaluate_routes(routes, api_key)` has
\* returned r: nothing for None, else chosen_index = routes.index(best_route),
\* kept here as the 1-based position that is printed
ChosenIndex(p, r) ==
    IF p = "returned" /\ r.kind = "route"
    THEN ListIndex(routes_data, routes_data[r.idx])
    ELSE 0

\* best_route = None; best_score = float('inf'); entering the loop; with the
\* use google_map_path makes of the value returned
EvaluateRoutesEnter ==
    /\ pc = "start"
    /\ variant = "google"
    /\ best_route' = 0
    /\ best_score' = Inf
    /\ IF routes_data = <<>>
       THEN Advance(0, 0)
       ELSE /\ pc' = "loop"
            /\ idx' = 1
            /\ result' = result
    /\ chosen_index' = ChosenIndex(pc', result')
    /\ UNCHANGED <<variant, routes_data, breakdown, elev_calls,
                   steps, flattened, polyline_str, decoded, slope_arg, slope_out>>

\* One pass of `for idx, route in enumerate(routes_data)`; with the use
\* google_map_path makes of the value returned.
EvaluateRoutesIter ==
    /\ pc = "loop"
    /\ variant = "google"
    /\ LET route == routes_data[idx]
           request == IF Skipped(route) THEN <<>>
                      ELSE SlopeRequest(route.overview_polyline)
       IN  \E answer \in (IF request = <<>> THEN {NoAnswer} ELSE Answers(Len(request))) :
             /\ elev_calls' = IF request = <<>> THEN elev_calls
                              ELSE Append(elev_calls,
                                          [idx |-> idx, locations |-> request,
                                           answer |-> answer])
             /\ IF Skipped(route)
                THEN /\ breakdown' = Append(breakdown, SkippedEntry)
                     /\ UNCHANGED <<best_route, best_score>>
                     /\ Advance(idx, best_route)
                ELSE IF answer = Silent
                THEN /\ pc' = "blocked"
                     /\ UNCHANGED <<idx, best_route, best_score,
                                    breakdown, result>>
                ELSE LET e == Evaluate(route, answer)
                     IN  IF e.raised
                         THEN /\ pc' = "raised"
                              /\ UNCHANGED <<idx, best_route, best_score,
                                             breakdown, result>>
                         ELSE /\ breakdown' = Append(breakdown, e.entry)
                              /\ IF ScoreLess(e.entry.score, best_score)
                                 THEN /\ best_score' = Fin(e.entry.score)
                                      /\ best_route' = idx
                                      /\ Advance(idx, idx)
                                 ELSE /\ UNCHANGED <<best_route, best_score>>
                                      /\ Advance(idx, best_route)
    /\ chosen_index' = ChosenIndex(pc', result')
    /\ UNCHANGED <<variant, routes_data, steps, flattened, polyline_str, decoded,
                   slope_arg, slope_out>>

(***************************************************************************)
(* evaluate_routes (ors)                                                   *)
(***************************************************************************)
\* `if not segments: continue`
SkippedOrs(feature) == feature.segments = <<>>

\* route_points = [(c[1], c[0]) for c in coords_line]
RoutePoints(feature) ==
    [i \in 1..Len(feature.coordinates) |->
        <<feature.coordinates[i][2], feature.coordinates[i][1]>>]

\* ors: what get_elevations_along_line sends, <<>> when nothing is sent
SlopeRequestOrs(feature) ==
    IF Len(RoutePoints(feature)) > 1 THEN Sample(RoutePoints(feature)) ELSE <<>>

EvaluateOrs(feature, answer) ==
    LET main_seg == feature.segments[1]
        travel_time == IF main_seg.duration.present THEN main_seg.duration.value
                       ELSE MissingDuration
        steps_ors == flatten_steps_ors(main_seg.steps)
        step_count == Len(steps_ors)
        turn_count == TurnCount([i \in 1..Len(steps_ors) |-> steps_ors[i].instruction])
        route_points == RoutePoints(feature)
        slope == IF Len(route_points) > 1
                 THEN compute_route_slope_ors(route_points, answer)
                 ELSE [raised |-> FALSE, value |-> Zero]
    IN  [raised |-> slope.raised,
         entry |-> [skipped |-> FALSE, travel_time |-> travel_time,
                    step_count |-> step_count, turn_count |-> turn_count,
                    slope_factor |-> slope.value,
                    score |-> ScoreOrs(travel_time, slope.value, step_count)]]

\* features = ors_data.get("features", []); `if not features: return {}`
OrsEvaluateRoutesEnter ==
    /\ pc = "start"
    /\ variant = "ors"
    /\ best_route' = 0
    /\ best_score' = Inf
    /\ IF routes_data = <<>>
       THEN /\ pc' = "returned"
            /\ result' = [kind |-> "{}", idx |-> 0]
            /\ idx' = 0
       ELSE /\ pc' = "loop"
            /\ idx' = 1
            /\ result' = result
    /\ UNCHANGED <<variant, routes_data, breakdown, elev_calls, chosen_index,
                   steps, flattened, polyline_str, decoded, slope_arg, slope_out>>

\* One pass of `for idx, feature in enumerate(features)`.
OrsEvaluateRoutesIter ==
    /\ pc = "loop"
    /\ variant = "ors"
    /\ LET feature == routes_data[idx]
           request == IF SkippedOrs(feature) THEN <<>> ELSE SlopeRequestOrs(feature)
       IN  \E answer \in (IF request = <<>> THEN {NoAnswer} ELSE Answers(Len(request))) :
             /\ elev_calls' = IF request = <<>> THEN elev_calls
                              ELSE Append(elev_calls,
                                          [idx |-> idx, locations |-> request,
                                           answer |-> answer])
             /\ IF SkippedOrs(feature)
                THEN /\ breakdown' = Append(breakdown, SkippedEntry)
                     /\ UNCHANGED <<best_route, best_score>>
                     /\ Advance(idx, best_route)
                ELSE IF answer = Silent
                THEN /\ pc' = "blocked"
                     /\ UNCHANGED <<idx, best_route, best_score,
                                    breakdown, result>>
                ELSE LET e == EvaluateOrs(feature, answer)
                     IN  IF e.raised
                         THEN /\ pc' = "raised"
                              /\ UNCHANGED <<idx, best_route, best_score,
                                             breakdown, result>>
                         ELSE /\ breakdown' = Append(breakdown, e.entry)
                              /\ IF ScoreLess(e.entry.score, best_score)
                                 THEN /\ best_score' = Fin(e.entry.score)
                                      /\ best_route' = idx
                                      /\ Advance(idx, idx)
                                 ELSE /\ UNCHANGED <<best_route, best_score>>
                                      /\ Advance(idx, best_route)
    /\ UNCHANGED <<variant, routes_data, chosen_index, steps, flattened,
                   polyline_str, decoded, slope_arg, slope_out>>

Next ==
    \/ EvaluateRoutesEnter
    \/ EvaluateRoutesIter
    \/ OrsEvaluateRoutesEnter
    \/ OrsEvaluateRoutesIter

Spec == Init /\ [][Next]_vars

(***************************************************************************)
(* flatten_steps on its own: every step forest of at most MaxNodes nodes.  *)
(***************************************************************************)
LeafTexts == {TurnLeft, GoOn, <<>>}

\* TreesOf(k): the step trees of exactly k nodes; ForestsOf(k): the forests
RECURSIVE TreesOf(_), ForestsOf(_)
TreesOf(k) ==
    IF k = 1
    THEN {Leaf(h) : h \in LeafTexts}
    ELSE {Node(TurnLeft, f) : f \in ForestsOf(k - 1)}

ForestsOf(k) ==
    IF k = 0
    THEN {<<>>}
    ELSE UNION {{<<t>> \o f : t \in TreesOf(j), f \in ForestsOf(k - j)} : j \in 1..k}

Forests == UNION {ForestsOf(k) : k \in 0..MaxNodes}

EvalIdle ==
    /\ variant = "google"
    /\ routes_data = <<>>
    /\ idx = 0
    /\ best_route = 0
    /\ best_score = Inf
    /\ breakdown = <<>>
    /\ elev_calls = <<>>
    /\ result = NoResult
    /\ chosen_index = 0

InitFlatten ==
    /\ EvalIdle
    /\ pc = "flatten_call"
    /\ steps \in Forests
    /\ flattened = <<>>
    /\ polyline_str = <<>>
    /\ decoded = [err |-> FALSE, points |-> <<>>]
    /\ SlopeIdle

\* a call flatten_steps(steps) and its return
FlattenSteps ==
    /\ pc = "flatten_call"
    /\ flattened' = flatten_steps(steps)
    /\ pc' = "flatten_done"
    /\ UNCHANGED <<evalVars, steps, polyline_str, decoded, slope_arg, slope_out>>

NextFlatten == FlattenSteps

SpecFlatten == InitFlatten /\ [][NextFlatten]_vars

(***************************************************************************)
(* decode_polyline on its own: every string of at most MaxPolyLen          *)
(* characters over PolyCodes, the encodings of the point sequences of      *)
(* PointSeqs, and the documented example string.                           *)
(***************************************************************************)
\* ' ' (below 63), '?', '@', 'A', '_' and '`' (continuation flag set)
PolyCodes == {32, 63, 64, 65, 95, 96}

\* "_p~iF~ps|U_ulLnnqC_mqNvxq`@"
KnownPolyline ==
    <<95, 112, 126, 105, 70, 126, 112, 115, 124, 85, 95, 117, 108, 76,
      110, 110, 113, 67, 95, 109, 113, 78, 118, 120, 113, 96, 64>>

\* The standard polyline encoding of the reference the decoder cites: a signed
\* value is zig-zag coded and written in 5-bit chunks, low chunk first, each
\* chunk but the last flagged with 0x20, each offset by 63.
RECURSIVE EncodeUnsigned(_)
EncodeUnsigned(u) ==
    IF u >= 32
    THEN <<(32 + (u % 32)) + 63>> \o EncodeUnsigned(u \div 32)
    ELSE <<u + 63>>

EncodeSigned(v) == EncodeUnsigned(IF v < 0 THEN -2 * v - 1 ELSE 2 * v)

RECURSIVE EncodeFrom(_, _, _)
EncodeFrom(points, lat, lng) ==
    IF points = <<>>
    THEN <<>>
    ELSE LET p == Head(points)
         IN  EncodeSigned(p[1] - lat) \o EncodeSigned(p[2] - lng)
             \o EncodeFrom(Tail(points), p[1], p[2])

Encode(points) == EncodeFrom(points, 0, 0)

CoordVals == {-12020000, 17, 3850000}
PointSeqs == SeqsUpTo(CoordVals \X CoordVals, MaxPoints)
Encoded == [pts \in PointSeqs |-> Encode(pts)]

PolyInputs ==
    SeqsUpTo(PolyCodes, MaxPolyLen)
    \cup {Encoded[pts] : pts \in PointSeqs}
    \cup {KnownPolyline}

InitDecode ==
    /\ EvalIdle
    /\ pc = "decode_call"
    /\ polyline_str \in PolyInputs
    /\ decoded = [err |-> FALSE, points |-> <<>>]
    /\ steps = <<>>
    /\ flattened = <<>>
    /\ SlopeIdle

\* a call decode_polyline(polyline_str): its return, or the IndexError it raises
DecodePolyline ==
    /\ pc = "decode_call"
    /\ decoded' = decode_polyline(polyline_str)
    /\ pc' = IF decoded'.err THEN "decode_raised" ELSE "decode_done"
    /\ UNCHANGED <<evalVars, steps, flattened, polyline_str, slope_arg, slope_out>>

NextDecode == DecodePolyline

SpecDecode == InitDecode /\ [][NextDecode]_vars

(***************************************************************************)
(* compute_route_slope on its own: geometries of 0 to 11 points along a    *)
(* meridian, with every answer of the service of at most one elevation     *)
(* more or fewer than the points sent, elevations in 0..MaxElev.           *)
(***************************************************************************)
North == <<65, 63>>
South == <<64, 63>>
Stay == <<63, 63>>

\* 2 and 5 points (one sample); 6 points that end where they start; 11 points
\* with samples at 0, 5, 0 and at 0, 3, 8
PolyTwo == <<63, 63>> \o North
PolyFive == <<63, 63>> \o Rep(North, 4)
PolySixBack == <<63, 63>> \o Rep(North, 2) \o Rep(South, 2) \o Stay
PolyUpDown == <<63, 63>> \o Rep(North, 5) \o Rep(South, 5)
PolyUneven == <<63, 63>> \o Rep(North, 3) \o Rep(Stay, 2) \o Rep(North, 5)

SlopePolys ==
    {PolyEmpty, PolyBad, PolyOne, PolyTwo, PolyFive, PolySix, PolySixBack,
     PolyEleven, PolyUpDown, PolyUneven}

\* ors: the same geometries as lists of (lat, lng)
SlopeCoordinates ==
    {decode_polyline(p).points : p \in SlopePolys \ {PolyBad}}

SlopeAnswers(n) ==
    {[kind |-> k, elevations |-> <<>>] : k \in Failures}
    \cup {[kind |-> "ok", elevations |-> e] :
            e \in UNION {[1..m -> 0..MaxElev] : m \in {n - 1, n, n + 1}}}
    \cup {Silent}

InitSlope ==
    /\ variant \in {"google", "ors"}
    /\ routes_data = <<>>
    /\ idx = 0
    /\ best_route = 0
    /\ best_score = Inf
    /\ breakdown = <<>>
    /\ elev_calls = <<>>
    /\ result = NoResult
    /\ chosen_index = 0
    /\ pc = "slope_call"
    /\ steps = <<>>
    /\ flattened = <<>>
    /\ polyline_str = <<>>
    /\ decoded = [err |-> FALSE, points |-> <<>>]
    /\ slope_arg \in (IF variant = "google" THEN SlopePolys ELSE SlopeCoordinates)
    /\ slope_out = NoSlope

\* a call compute_route_slope(slope_arg, key): its return, the IndexError it
\* raises, or its wait for an answer that never comes. The ors function sends
\* its request whatever the number of points.
ComputeRouteSlope ==
    /\ pc = "slope_call"
    /\ LET locations == IF variant = "google" THEN SlopeRequest(slope_arg)
                        ELSE Sample(slope_arg)
           sent == variant = "ors" \/ locations # <<>>
       IN  \E answer \in (IF sent THEN SlopeAnswers(Len(locations)) ELSE {NoAnswer}) :
             /\ elev_calls' = IF sent
                              THEN <<[idx |-> 0, locations |-> locations,
                                      answer |-> answer]>>
                              ELSE <<>>
             /\ IF answer = Silent
                THEN /\ pc' = "slope_blocked"
                     /\ slope_out' = slope_out
                ELSE LET r == IF variant = "google"
                              THEN compute_route_slope(slope_arg, answer)
                              ELSE compute_route_slope_ors(slope_arg, answer)
                     IN  /\ slope_out' = r
                         /\ pc' = IF r.raised THEN "slope_raised" ELSE "slope_done"
    /\ UNCHANGED <<variant, routes_data, idx, best_route, best_score, breakdown,
                   result, chosen_index, steps, flattened, polyline_str, decoded,
                   slope_arg>>

NextSlope == ComputeRouteSlope

SpecSlope == InitSlope /\ [][NextSlope]_vars

(***************************************************************************)
(* Properties of evaluate_routes (specification Spec)                      *)
(***************************************************************************)
N == Len(routes_data)
Returned == pc = "returned"

\* the candidate has legs (google) or segments (ors)
HasLegs(i) ==
    IF variant = "google" THEN routes_data[i].legs # <<>>
    ELSE routes_data[i].segments # <<>>

\* the steps of the first leg (segment) of a candidate that has one
FirstSteps(i) ==
    IF variant = "google" THEN routes_data[i].legs[1].steps
    ELSE routes_data[i].segments[1].steps

ScoreOf(i) == breakdown[i].score

\* C1: the route evaluate_routes returns is a candidate that was not skipped
\* and whose weighted score is less than or equal to the score of every other
\* candidate that was not skipped; a list with such a candidate returns one.
\* With the default weights Route A (600 s, slope 0, 5 steps, 2 turns) scores
\* 604 and Route B (500 s, slope 10, 3 steps, 1 turn) scores 522.25.
C1_ReturnsMinimumScore ==
    /\ Score(600, Zero, 5, 2) = Frac(604, 1)
    /\ Score(500, FInt(10), 3, 1) = Frac(2089, 4)
    /\ Returned /\ (\E j \in 1..N : HasLegs(j)) => result.kind = "route"
    /\ Returned /\ result.kind = "route" =>
         /\ result.idx \in 1..N
         /\ HasLegs(result.idx)
         /\ ~breakdown[result.idx].skipped
         /\ \A j \in 1..N :
              HasLegs(j) => FLeq(ScoreOf(result.idx), ScoreOf(j))

\* a later candidate with a strictly lower score was returned
C1_Witness ==
    /\ Returned
    /\ result.kind = "route"
    /\ result.idx > 1
    /\ \E j \in 1..N :
         /\ j < result.idx
         /\ HasLegs(j)
         /\ FLess(ScoreOf(result.idx), ScoreOf(j))

\* C2: when several candidates that were not skipped have the same minimum
\* score, evaluate_routes returns the one of lowest index: no earlier scored
\* candidate has a score equal to (or below) that of the returned one.
C2_FirstWinsOnTies ==
    Returned /\ result.kind = "route" =>
        \A j \in 1..N :
            (HasLegs(j) /\ ScoreOf(j) = ScoreOf(result.idx)) => result.idx <= j

\* two scored candidates tie on the minimum score and the earlier is returned
C2_Witness ==
    /\ Returned
    /\ result.kind = "route"
    /\ \E j \in 1..N :
         /\ j > result.idx
         /\ HasLegs(j)
         /\ ScoreOf(j) = ScoreOf(result.idx)

NoCandidateHasLegs == \A j \in 1..N : ~HasLegs(j)

\* C3: for an empty candidate list, and for a list whose candidates all have
\* an empty legs (segments) sequence, evaluate_routes raises nothing, runs to
\* its return and returns the no-route signal (None, or {} for an ORS answer
\* without features).
C3_NoRouteSignal ==
    NoCandidateHasLegs =>
        /\ pc # "raised"
        /\ pc = "returned" \/ ENABLED Next
        /\ best_route = 0
        /\ Returned =>
             /\ result.idx = 0
             /\ result.kind = (IF variant = "ors" /\ N = 0 THEN "{}" ELSE "None")

\* a list of several candidates, none with legs, was evaluated to the end
C3_Witness ==
    /\ Returned
    /\ N >= 2
    /\ NoCandidateHasLegs
    /\ Len(breakdown) = N
    /\ result.kind = "None"

\* C4, as claimed: every candidate with no legs, no segments or no steps is
\* skipped (never scored) and is never the returned route.
C4_NoStepsExcluded ==
    /\ \A i \in 1..Len(breakdown) :
         (~HasLegs(i) \/ FirstSteps(i) = <<>>) => breakdown[i].skipped
    /\ Returned /\ result.kind = "route" =>
         HasLegs(result.idx) /\ FirstSteps(result.idx) # <<>>

\* C4, amended: exactly the candidates with no legs (no segments) are skipped;
\* they are never scored and never returned. A candidate with legs but no
\* steps is scored, with step count 0 and turn count 0, and stays eligible.
C4_OnlyNoLegsExcluded ==
    /\ \A i \in 1..Len(breakdown) :
         /\ breakdown[i].skipped <=> ~HasLegs(i)
         /\ (HasLegs(i) /\ FirstSteps(i) = <<>>) =>
              breakdown[i].step_count = 0 /\ breakdown[i].turn_count = 0
    /\ best_route # 0 => HasLegs(best_route)
    /\ Returned /\ result.kind = "route" => HasLegs(result.idx)

\* a candidate without legs was passed over and one without steps was returned
C4_Witness ==
    /\ Returned
    /\ result.kind = "route"
    /\ FirstSteps(result.idx) = <<>>
    /\ \E j \in 1..N : ~HasLegs(j) /\ breakdown[j].skipped

\* C5, as claimed: in both variants the score of a scored candidate is
\* 1.0*duration + 2.0*slopeFactor + 0.5*stepCount + 0.75*turnCount.
C5_FourTermScore ==
    \A i \in 1..Len(breakdown) :
        ~breakdown[i].skipped =>
            breakdown[i].score =
                FAdd(FAdd(FAdd(FInt(breakdown[i].travel_time),
                               FMul(FInt(2), breakdown[i].slope_factor)),
                          Frac(breakdown[i].step_count, 2)),
                     Frac(3 * breakdown[i].turn_count, 4))

\* a polyline the decoder cannot read to its end, or an empty one
Cont(c) == c - 63 >= 32
EndsMidChunk(s) ==
    /\ s # <<>>
    /\ \/ Cont(s[Len(s)])
       \/ Cardinality({i \in 1..Len(s) : ~Cont(s[i])}) % 2 = 1

\* C9, as claimed: a google candidate with legs and steps whose geometry
\* string is empty or malformed is scored with slope factor 0, and its
\* geometry never makes evaluate_routes raise.
C9_BadGeometryDegrades ==
    variant = "google" =>
        /\ \A i \in 1..Len(breakdown) :
             (/\ HasLegs(i)
              /\ \/ routes_data[i].overview_polyline = <<>>
                 \/ EndsMidChunk(routes_data[i].overview_polyline)) =>
                ~breakdown[i].skipped /\ breakdown[i].slope_factor = Zero
        /\ pc = "raised" => ~EndsMidChunk(routes_data[idx].overview_polyline)

\* C10: a failed call to the Elevation Service (network error, unparseable
\* answer, non-success status) raises nothing: the candidate is scored with
\* slope factor exactly 0, the loop goes on to the next candidate, and a
\* finished evaluation has scored or skipped every candidate.
C10_ServiceFailureGivesZero ==
    /\ \A k \in 1..Len(elev_calls) :
         LET c == elev_calls[k]
         IN  c.answer.kind \in Failures =>
               /\ ~(pc = "raised" /\ idx = c.idx)
               /\ Len(breakdown) >= c.idx
               /\ ~breakdown[c.idx].skipped
               /\ breakdown[c.idx].slope_factor = Zero
               /\ c.idx < N => idx > c.idx
    /\ Returned => Len(breakdown) = N

\* the service failed for one candidate and the next one was scored with a
\* slope of its own
C10_Witness ==
    /\ Returned
    /\ \E k \in 1..Len(elev_calls) :
         LET c == elev_calls[k]
         IN  /\ c.answer.kind \in Failures
             /\ c.idx < N
             /\ breakdown[c.idx + 1].slope_factor # Zero

\* C11, as claimed: a successful answer of the Elevation Service that carries
\* more or fewer elevations than the points sent is treated as a failure of
\* the service: nothing is raised and the candidate's slope factor is 0.
C11_CountMismatchGivesZero ==
    \A k \in 1..Len(elev_calls) :
        LET c == elev_calls[k]
        IN  (c.answer.kind = "ok"
             /\ Len(c.answer.elevations) # Len(c.locations)) =>
               /\ ~(pc = "raised" /\ idx = c.idx)
               /\ Len(breakdown) >= c.idx
               /\ breakdown[c.idx].slope_factor = Zero

\* the geometry of a candidate as (lat, lng) points; none when the polyline
\* cannot be decoded
GeometryOf(i) ==
    IF variant = "google"
    THEN LET dec == decode_polyline(routes_data[i].overview_polyline)
         IN  IF dec.err THEN <<>> ELSE dec.points
    ELSE [k \in 1..Len(routes_data[i].coordinates) |->
            <<routes_data[i].coordinates[k][2], routes_data[i].coordinates[k][1]>>]

\* the points at the Python indices 0, 5, 10, ... in their order
EveryFifth(points) ==
    [k \in 1..((Len(points) - 1) \div 5 + 1) |-> points[5 * (k - 1) + 1]]

\* the loop body has run for candidate i, which was not skipped
Evaluated(i) ==
    /\ HasLegs(i)
    /\ i <= Len(breakdown) \/ (pc \in {"raised", "blocked"} /\ idx = i)

CallsFor(i) == {k \in 1..Len(elev_calls) : elev_calls[k].idx = i}

\* C12: the evaluation of a candidate whose geometry has at least 2 points
\* sends exactly one request to the Elevation Service, carrying the points at
\* the indices 0, 5, 10, ... of the geometry in their order; a candidate whose
\* geometry has fewer than 2 points, or that is not evaluated, sends none.
C12_OneBatchedRequest ==
    \A i \in 1..N :
        IF Evaluated(i) /\ Len(GeometryOf(i)) >= 2
        THEN /\ Cardinality(CallsFor(i)) = 1
             /\ \A k \in CallsFor(i) :
                  elev_calls[k].locations = EveryFifth(GeometryOf(i))
        ELSE CallsFor(i) = {}

\* an 11-point geometry was sent as its points 0, 5 and 10, and a one-point
\* geometry was evaluated without a request
C12_Witness ==
    /\ Returned
    /\ \E i \in 1..N :
         /\ Len(GeometryOf(i)) = 11
         /\ \E k \in CallsFor(i) :
              elev_calls[k].locations = <<GeometryOf(i)[1], GeometryOf(i)[6],
                                          GeometryOf(i)[11]>>
    /\ \E i \in 1..N :
         Evaluated(i) /\ Len(GeometryOf(i)) = 1 /\ CallsFor(i) = {}

\* C13, as claimed: a request to the Elevation Service that is never answered
\* does not stop evaluate_routes: the function has returned or can still take
\* a step, and the candidate of that request is scored with slope factor 0.
C13_UnansweredRequestTimesOut ==
    \A k \in 1..Len(elev_calls) :
        LET c == elev_calls[k]
        IN  c.answer = Silent =>
              /\ Returned \/ ENABLED Next
              /\ Len(breakdown) >= c.idx =>
                   breakdown[c.idx].slope_factor = Zero

\* C16, as claimed: the chosen index that google_map_path prints is the
\* position, in the candidate list, of the candidate evaluate_routes selected.
C16_ChosenIndexIsSelected ==
    (variant = "google" /\ Returned /\ result.kind = "route") =>
        chosen_index = result.idx

(***************************************************************************)
(* Properties of flatten_steps (specification SpecFlatten)                 *)
(***************************************************************************)
\* the positions of the nodes of a forest: <<i1, ..., ik>> is child ik of ...
\* of child i2 of root i1
RECURSIVE PathsOf(_)
PathsOf(f) ==
    UNION {{<<i>>} \cup {<<i>> \o q : q \in PathsOf(f[i].steps)} : i \in 1..Len(f)}

RECURSIVE NodeAt(_, _)
NodeAt(f, p) ==
    IF Len(p) = 1 THEN f[p[1]] ELSE NodeAt(f[p[1]].steps, Tail(p))

LeafPaths(f) == {p \in PathsOf(f) : NodeAt(f, p).steps = <<>>}

\* p comes before q in the pre-order, left-to-right traversal
RECURSIVE Before(_, _)
Before(p, q) ==
    IF p = <<>> THEN q # <<>>
    ELSE IF q = <<>> THEN FALSE
    ELSE \/ p[1] < q[1]
         \/ p[1] = q[1] /\ Before(Tail(p), Tail(q))

PreorderRank(f, p) == 1 + Cardinality({q \in LeafPaths(f) : Before(q, p)})

\* C6: flatten_steps returns exactly the leaf steps of the forest in pre-order,
\* left to right: as many entries as the forest has leaves, the k-th entry
\* being the k-th leaf of the traversal, and no step with sub-steps among them.
C6_FlattenIsPreorderLeaves ==
    pc = "flatten_done" =>
        /\ Len(flattened) = Cardinality(LeafPaths(steps))
        /\ \A p \in LeafPaths(steps) :
             flattened[PreorderRank(steps, p)] = NodeAt(steps, p)
        /\ \A i \in 1..Len(flattened) : flattened[i].steps = <<>>

\* a forest with a leaf two levels down and distinct leaves was flattened
C6_Witness ==
    /\ pc = "flatten_done"
    /\ \E p \in LeafPaths(steps) : Len(p) >= 3
    /\ Len(flattened) >= 2
    /\ flattened[1] # flattened[2]

(***************************************************************************)
(* Properties of decode_polyline (specification SpecDecode)                *)
(***************************************************************************)
DecodeOver == pc \in {"decode_done", "decode_raised"}

\* (38.5, -120.2), (40.7, -120.95), (43.252, -126.453)
KnownPoints ==
    << <<3850000, -12020000>>, <<4070000, -12095000>>, <<4325200, -12645300>> >>

\* the encodings of the point sequences; no two sequences share one
EncodedSet == {Encoded[pts] : pts \in PointSeqs}
EncodeInjective == Cardinality(EncodedSet) = Cardinality(PointSeqs)

\* C7: decode_polyline inverts the standard polyline encoding (5-bit chunks,
\* offset 63, continuation flag 0x20, zig-zag, deltas accumulated from (0,0),
\* points as (latitude, longitude) at scale 1e5): the encoding of a point
\* sequence decodes to that sequence, and "_p~iF~ps|U_ulLnnqC_mqNvxq`@"
\* decodes to (38.5,-120.2), (40.7,-120.95), (43.252,-126.453).
C7_DecodesStandardEncoding ==
    DecodeOver =>
        /\ polyline_str = KnownPolyline =>
             decoded = [err |-> FALSE, points |-> KnownPoints]
        /\ EncodeInjective
        /\ polyline_str \in EncodedSet =>
             /\ ~decoded.err
             /\ decoded.points \in PointSeqs
             /\ Encoded[decoded.points] = polyline_str

\* the example string was decoded to three points
C7_Witness ==
    /\ pc = "decode_done"
    /\ polyline_str = KnownPolyline
    /\ Len(decoded.points) = 3

\* C8, as claimed: a string that ends mid-chunk, or that holds a character of
\* code below 63, makes decode_polyline fail and return no point.
C8_RejectsMalformed ==
    DecodeOver =>
        ((\/ EndsMidChunk(polyline_str)
          \/ \E i \in 1..Len(polyline_str) : polyline_str[i] < 63) =>
            decoded.err /\ decoded.points = <<>>)

\* C8, amended: decode_polyline raises (an IndexError) and returns no point
\* exactly when the string ends mid-chunk: its last character has the
\* continuation flag, or a latitude has no longitude after it. A character of
\* code below 63 is not rejected: it ends a chunk like any character without
\* the flag ("  " decodes to the one point (-0.00001, -0.00001)).
C8_RaisesOnlyMidChunk ==
    DecodeOver =>
        /\ decoded.err <=> EndsMidChunk(polyline_str)
        /\ decoded.err <=> pc = "decode_raised"
        /\ decoded.err => decoded.points = <<>>
        /\ polyline_str = <<32, 32>> => decoded.points = << <<-1, -1>> >>

\* a string with a complete point and then a flagged last character raised
C8_Witness ==
    /\ pc = "decode_raised"
    /\ Len(polyline_str) >= 3
    /\ ~Cont(polyline_str[1])
    /\ ~Cont(polyline_str[2])
    /\ Cont(polyline_str[Len(polyline_str)])

(***************************************************************************)
(* Properties of compute_route_slope (specification SpecSlope)             *)
(***************************************************************************)
SlopeOver == pc \in {"slope_done", "slope_raised"}

\* the geometry handed to compute_route_slope, as points
SlopeGeometry ==
    IF variant = "google" THEN decode_polyline(slope_arg).points ELSE slope_arg

\* the points sent and the elevations received, for a request that was sent
SentPoints == elev_calls[1].locations
GotElevations == elev_calls[1].answer.elevations

\* a successful answer gave the loop at least one pair of elevations, and a
\* sampled point for each of them
SlopeComputed ==
    /\ elev_calls # <<>>
    /\ elev_calls[1].answer.kind = "ok"
    /\ Len(GotElevations) >= 2
    /\ Len(GotElevations) <= Len(SentPoints)

\* segment i: its horizontal distance and the absolute change of elevation
SegDist(i) == Abs(SentPoints[i + 1][1] - SentPoints[i][1])
SegRise(i) == Abs(GotElevations[i + 1] - GotElevations[i])
Segs == 1..(Len(GotElevations) - 1)

\* the product of the non-zero distances of the segments of S
RECURSIVE DistProduct(_)
DistProduct(S) ==
    IF S = {}
    THEN 1
    ELSE LET i == CHOOSE x \in S : TRUE
         IN  (IF SegDist(i) > 0 THEN SegDist(i) ELSE 1) * DistProduct(S \ {i})

\* the sum over S of rise / distance, multiplied by P; a segment of distance 0
\* adds 0
RECURSIVE SlopeSumTimes(_, _)
SlopeSumTimes(S, P) ==
    IF S = {}
    THEN 0
    ELSE LET i == CHOOSE x \in S : TRUE
         IN  (IF SegDist(i) > 0 THEN SegRise(i) * (P \div SegDist(i)) ELSE 0)
             + SlopeSumTimes(S \ {i}, P)

\* C14: the slope factor is the arithmetic mean, over the consecutive pairs of
\* elevation samples, of |change of elevation| / horizontal distance (in
\* percent), a pair of horizontal distance 0 counting as slope 0; nothing is
\* raised for such a pair, the result is never negative, and a climb and a
\* descent of the same grade count the same.
C14_MeanOfAbsoluteSlopes ==
    /\ pc = "slope_done" => slope_out.value.n >= 0 /\ slope_out.value.d > 0
    /\ (SlopeOver /\ SlopeComputed) =>
         /\ pc = "slope_done"
         /\ slope_out.value.n * (DistProduct(Segs) * Cardinality(Segs))
              = SlopeSumTimes(Segs, DistProduct(Segs)) * slope_out.value.d
         /\ (\A i \in Segs : SegDist(i) = 0) => slope_out.value = Zero

\* a climb of 2 over a distance of 5 followed by the same descent gave the
\* slope factor 2/5
C14_Witness ==
    /\ pc = "slope_done"
    /\ SlopeComputed
    /\ Len(SentPoints) = 3
    /\ SegDist(1) = 5
    /\ SegDist(2) = 5
    /\ GotElevations = <<0, 2, 0>>
    /\ slope_out.value = Frac(2, 5)

\* the number of elevation samples the slope is computed from: none without a
\* request, those of a successful answer, one zero per sampled point after a
\* failure
AvailableSamples ==
    IF elev_calls = <<>> THEN 0
    ELSE IF elev_calls[1].answer.kind = "ok" THEN Len(GotElevations)
    ELSE Len(SentPoints)

GeometryDecoded == variant = "ors" \/ ~decode_polyline(slope_arg).err

\* C15: for a geometry that was decoded, compute_route_slope returns exactly
\* 0.0, and raises nothing, whenever fewer than 2 elevation samples are
\* available; this is the case of a geometry of 2 to 5 points, sampled down to
\* its first point, when the service answers with one elevation or fails.
C15_FewerThanTwoSamplesGivesZero ==
    (SlopeOver /\ GeometryDecoded /\ AvailableSamples < 2) =>
        /\ pc = "slope_done"
        /\ ~slope_out.raised
        /\ slope_out.value = Zero

\* a geometry of 2 to 5 points was sent as one point, answered by one non-zero
\* elevation, and the slope factor returned is 0
C15_Witness ==
    /\ pc = "slope_done"
    /\ Len(SlopeGeometry) \in 2..5
    /\ elev_calls # <<>>
    /\ Len(SentPoints) = 1
    /\ elev_calls[1].answer.kind = "ok"
    /\ GotElevations = <<2>>
    /\ slope_out.value = Zero

(***************************************************************************)
(* Properties of the turn count and of the duration (specification Spec)   *)
(***************************************************************************)
\* the text holds t, u, r, n in a row, each in either case
HoldsTurn(text) ==
    \E k \in 1..(Len(text) - 3) :
        /\ text[k] \in {"t", "T"}
        /\ text[k + 1] \in {"u", "U"}
        /\ text[k + 2] \in {"r", "R"}
        /\ text[k + 3] \in {"n", "N"}

\* the leaf steps of candidate i whose instruction text holds "turn"; the
\* steps of an ORS segment are all leaves
TurnLeaves(i) ==
    IF variant = "google"
    THEN {p \in LeafPaths(FirstSteps(i)) :
            HoldsTurn(NodeAt(FirstSteps(i), p).html_instructions)}
    ELSE {<<k>> : k \in {j \in 1..Len(FirstSteps(i)) :
                            HoldsTurn(FirstSteps(i)[j].instruction)}}

\* C17: the turn count of a scored candidate is the number of its leaf steps
\* whose instruction text holds "turn" in any letter case: a step with
\* sub-steps is not counted, a leaf without text counts 0. The google score
\* is the other three terms plus 0.75 times this number (the ors score has no
\* turn term).
C17_TurnCountOverLeaves ==
    \A i \in 1..Len(breakdown) :
        ~breakdown[i].skipped =>
            /\ breakdown[i].turn_count = Cardinality(TurnLeaves(i))
            /\ variant = "google" =>
                 breakdown[i].score =
                     FAdd(FAdd(FAdd(FInt(breakdown[i].travel_time),
                                    FMul(FInt(2), breakdown[i].slope_factor)),
                               Frac(breakdown[i].step_count, 2)),
                          Frac(3 * Cardinality(TurnLeaves(i)), 4))

\* a google candidate with a "Turn" step that has sub-steps, a leaf "Turn", a
\* leaf "UTURN" and a leaf without text was scored with turn count 2
C17_Witness ==
    /\ variant = "google"
    /\ \E i \in 1..Len(breakdown) :
         /\ ~breakdown[i].skipped
         /\ breakdown[i].turn_count = 2
         /\ \E p \in PathsOf(FirstSteps(i)) \ LeafPaths(FirstSteps(i)) :
              HoldsTurn(NodeAt(FirstSteps(i), p).html_instructions)
         /\ \E p \in LeafPaths(FirstSteps(i)) :
              NodeAt(FirstSteps(i), p).html_instructions = <<>>
         /\ \E p \in TurnLeaves(i) :
              ~Contains(NodeAt(FirstSteps(i), p).html_instructions, turn)

\* the first leg (segment) of candidate i carries a duration
HasDuration(i) ==
    IF variant = "google" THEN routes_data[i].legs[1].duration.present
    ELSE routes_data[i].segments[1].duration.present

\* C18, as claimed: a candidate whose leg (segment) carries no duration is
\* excluded: it is not scored, and it is never the route returned.
C18_NoDurationExcluded ==
    /\ \A i \in 1..Len(breakdown) :
         (HasLegs(i) /\ ~HasDuration(i)) => breakdown[i].skipped
    /\ Returned /\ result.kind = "route" => HasDuration(result.idx)

\* C18, amended: a candidate whose leg (segment) carries no duration is not
\* excluded. It is scored with the travel time 999999, so its score is at
\* least 999999, and it is the route returned when every candidate with legs
\* lacks a duration.
C18_NoDurationScoredAsSentinel ==
    /\ \A i \in 1..Len(breakdown) :
         (HasLegs(i) /\ ~HasDuration(i)) =>
            /\ ~breakdown[i].skipped
            /\ breakdown[i].travel_time = 999999
            /\ FLeq(FInt(999999), breakdown[i].score)
    /\ (/\ Returned
        /\ \E j \in 1..N : HasLegs(j)
        /\ \A j \in 1..N : HasLegs(j) => ~HasDuration(j)) =>
           /\ result.kind = "route"
           /\ ~HasDuration(result.idx)

\* of a candidate without legs and one without a duration, the latter was
\* scored with 999999 and returned
C18_Witness ==
    /\ Returned
    /\ N >= 2
    /\ \E j \in 1..N : ~HasLegs(j)
    /\ result.kind = "route"
    /\ ~HasDuration(result.idx)
    /\ breakdown[result.idx].travel_time = 999999

=============================================================================
